---- MODULE Spec2Model ----
(***************************************************************************)
(* A model of frida-node's Device binding (src/device.cc): the seven       *)
(* commands of the command surface, the per-command asynchronous           *)
(* operations (Begin / End / Result), the Device wrapper's hold on its     *)
(* native handle, and the operation bridge that carries an operation from  *)
(* the event-loop thread to the call-issuance thread and back.             *)
(*                                                                         *)
(* Three threads take steps: "js" (the host's event loop: command calls,   *)
(* delivery of completed operations, garbage collection), "glib" (the      *)
(* call-issuance thread, which runs Begin) and "native" (the library's     *)
(* thread, which completes a call and fires the completion callback).      *)
(***************************************************************************)
EXTENDS Integers, Sequences, FiniteSets, TLC

\* Operations created in one behaviour.
MaxOps == 2
\* Operations created in one behaviour of the specification that draws
\* every input.
MaxInputOps == 1
\* Longest native result list and longest argv array the model draws.
MaxLen == 2
\* Width of the model's guint (the program's is 32 bits; the model scales it
\* down so that values past the width are within reach).
GuintBits == 3

GuintModulus == 2 ^ GuintBits

Wrappers == {"w1", "w2"}

BadPidMessage == "Bad argument, expected pid"
BadArgvMessage == "Bad argument, expected argv as an array of strings"

(***************************************************************************)
(* Host (JavaScript) values.  A number is kept in halves (h = twice the    *)
(* value) so that non-integral numbers exist; NaN is a number too.         *)
(***************************************************************************)
Undefined == [t |-> "undefined"]
Null == [t |-> "null"]
Num(h) == [t |-> "number", nan |-> FALSE, h |-> h]
NaN == [t |-> "number", nan |-> TRUE, h |-> 0]
Str(s) == [t |-> "string", s |-> s]
Arr(e) == [t |-> "array", e |-> e]
Uint32(n) == [t |-> "uint32", n |-> n]
HostError(m) == [t |-> "Error", message |-> m]

IsNumber(v) == v.t = "number"
IsString(v) == v.t = "string"
IsArray(v) == v.t = "array"

\* v8's ToInteger()->Value(): truncation toward zero, NaN to 0.
ToInteger(v) ==
  IF v.nan THEN 0
  ELSE IF v.h >= 0 THEN v.h \div 2 ELSE -((-v.h) \div 2)

\* static_cast<guint>(pid) of a 64-bit integer.
CastGuint(n) == n % GuintModulus

(***************************************************************************)
(* Native objects: reference-counted records of the native library.        *)
(***************************************************************************)
Handle(k, i) == [k |-> k, i |-> i]
NULL == Handle("NULL", 0)

\* C strings and NULL-terminated string vectors.
CStr(s) == [null |-> FALSE, s |-> s]
CNull == [null |-> TRUE, s |-> ""]
NullVec == [null |-> TRUE, slots |-> <<>>]
Vec(slots) == [null |-> FALSE, slots |-> slots]

\* g_new0(gchar *, n): n zeroed slots.
GNew0(n) == Vec([i \in 1..n |-> CNull])

RECURSIVE StrvLengthFrom(_, _)
StrvLengthFrom(slots, i) ==
  IF i > Len(slots) \/ slots[i].null THEN i - 1
  ELSE StrvLengthFrom(slots, i + 1)

\* g_strv_length: the number of strings before the terminating NULL.
StrvLength(vec) == StrvLengthFrom(vec.slots, 1)

\* Heap buffers: of a string vector called name, buffer 0 is the array and
\* buffer k its k-th string; a lone string is buffer 0 of its name.  A heap
\* log keeps the buffers allocated and, in order, the buffers freed.
Buf(name, k) == [buf |-> name, k |-> k]
NoHeap == [allocs |-> {}, frees |-> <<>>]

\* g_free(p): nothing for NULL.
GFree(p, name) == IF p.null THEN <<>> ELSE <<Buf(name, 0)>>

\* g_strfreev(vec): nothing for NULL; otherwise every string up to the
\* terminating NULL, then the array.
GStrfreev(vec, name) ==
  IF vec.null THEN <<>>
  ELSE [k \in 1..StrvLength(vec) |-> Buf(name, k)] \o <<Buf(name, 0)>>

\* The buffers of a freshly allocated string vector (g_get_environ).
StrvBuffers(vec, name) ==
  IF vec.null THEN {} ELSE {Buf(name, k) : k \in 0..StrvLength(vec)}

\* The secondary wrapper constructors (Application::New, Process::New,
\* Session::New): a host object around the native record.
WrapNative(t, handle) == [t |-> t, handle |-> handle]

(***************************************************************************)
(* Argument validation of the command surface.                             *)
(***************************************************************************)
\* ResumeCheck with the sign test written pid < 0: pid 0 is let through.
ResumeCheckNoSign(info) ==
  IF Len(info) < 1 \/ ~IsNumber(info[1]) THEN "throw"
  ELSE IF ToInteger(info[1]) < 0 THEN "throw" ELSE "ok"

\* Device::Resume, its two checks of info[0].
ResumeCheck(info) ==
  IF Len(info) < 1 \/ ~IsNumber(info[1]) THEN "throw"
  ELSE IF ToInteger(info[1]) <= 0 THEN "throw" ELSE "ok"

\* Device::Kill, its two checks of info[0].
KillCheck(info) ==
  IF Len(info) < 1 \/ ~IsNumber(info[1]) THEN "throw"
  ELSE IF ToInteger(info[1]) <= 0 THEN "throw" ELSE "ok"

\* Device::Attach, its two checks of info[0].
AttachCheck(info) ==
  IF Len(info) < 1 \/ ~IsNumber(info[1]) THEN "throw"
  ELSE IF ToInteger(info[1]) <= 0 THEN "throw" ELSE "ok"

\* SpawnCopy that passes over a non-string element instead of giving up.
RECURSIVE SpawnCopySkip(_, _, _)
SpawnCopySkip(elements, i, argv) ==
  IF i = Len(elements) THEN argv
  ELSE IF IsString(elements[i + 1])
       THEN SpawnCopySkip(elements, i + 1,
              Vec([argv.slots EXCEPT ![i + 1] = CStr(elements[i + 1].s)]))
       ELSE SpawnCopySkip(elements, i + 1, argv)

\* Device::Spawn, the loop over the elements: element i is copied into
\* argv[i] when it is a string; otherwise argv is freed and set to NULL and
\* the loop ends.
RECURSIVE SpawnCopy(_, _, _)
SpawnCopy(elements, i, argv) ==
  IF i = Len(elements) THEN argv
  ELSE IF IsString(elements[i + 1])
       THEN SpawnCopy(elements, i + 1,
              Vec([argv.slots EXCEPT ![i + 1] = CStr(elements[i + 1].s)]))
       ELSE NullVec

\* Device::Spawn, the argv it builds from info (NULL when info[0] is absent
\* or no array).
SpawnArgv(info) ==
  IF Len(info) >= 1 /\ IsArray(info[1])
  THEN SpawnCopy(info[1].e, 0, GNew0(Len(info[1].e) + 1))
  ELSE NullVec

\* Device::Spawn, the same loop seen from the heap: g_strdup allocates the
\* string of element i; at a non-string g_strfreev(argv) frees what argv
\* holds by then and the loop ends.
RECURSIVE SpawnCopyHeap(_, _, _, _)
SpawnCopyHeap(elements, i, argv, heap) ==
  IF i = Len(elements) THEN heap
  ELSE IF IsString(elements[i + 1])
       THEN SpawnCopyHeap(elements, i + 1,
              Vec([argv.slots EXCEPT ![i + 1] = CStr(elements[i + 1].s)]),
              [heap EXCEPT !.allocs = @ \cup {Buf("argv", i + 1)}])
       ELSE [heap EXCEPT !.frees = @ \o GStrfreev(argv, "argv")]

\* Device::Spawn, the heap log of building argv from info: g_new0 allocates
\* the array, then the loop runs.
SpawnArgvHeap(info) ==
  IF Len(info) >= 1 /\ IsArray(info[1])
  THEN SpawnCopyHeap(info[1].e, 0, GNew0(Len(info[1].e) + 1),
                     [NoHeap EXCEPT !.allocs = {Buf("argv", 0)}])
  ELSE NoHeap

(***************************************************************************)
(* State.                                                                  *)
(***************************************************************************)
VARIABLES
  wrappers,   \* per Device wrapper: state, reachable from the host, holds
  refcount,   \* the native device handle's reference count
  ownerRef,   \* whether the handle's creator still owns its reference
  ops,        \* the operations created so far, by id
  glibQueue,  \* operations whose Begin waits on the call-issuance thread
  mailbox,    \* completed operations posted to the event loop
  lastCall,   \* the last command call and what it gave its caller
  uaf,        \* a begin or finish call used the handle at reference count 0
  environ,    \* the process environment
  callerArray, \* the elements of the array last passed to spawn, as its
              \* caller has them now
  answers     \* the native library's answers: <<id, res>> when the call
              \* begun by operation id completed with res

vars == <<wrappers, refcount, ownerRef, ops, glibQueue, mailbox, lastCall, uaf,
          environ, callerArray, answers>>

(***************************************************************************)
(* Operations.  An operation record carries the captured arguments, the    *)
(* raw device handle copied from the wrapper (handle_), what the native    *)
(* library will hand to the finish call (res, chosen when the call         *)
(* completes), the subclass's result member after End (application_,       *)
(* applications_, processes_, pid_, session_), the GError after End, and   *)
(* the future.  begins/ends/results/settles count the runs of Begin, End,  *)
(* Result and of the future's resolve-or-reject; released lists the native *)
(* references Result has dropped, in order; steps lists the steps the      *)
(* operation has been through, in the order they ran; info keeps the       *)
(* arguments of the command call that created the operation and           *)
(* environAtCall the process environment as it was then; heap is the       *)
(* log of the buffers allocated for the operation's captured arguments.    *)
(***************************************************************************)
DeviceHandle == Handle("device", 1)

NoMember == [obj |-> NULL, elems |-> <<>>, num |-> 0]
NoResult == [err |-> "", obj |-> NULL, elems |-> <<>>, num |-> 0]
NoCall == [fn |-> "", handle |-> NULL, pid |-> 0, path |-> CNull,
           argv |-> NullVec, argc |-> 0, envp |-> NullVec, envc |-> 0,
           token |-> 0]
NoFinish == [fn |-> "", handle |-> NULL]
PendingFuture == [state |-> "pending", value |-> Undefined]

\* An operation as its constructor leaves it (new XOperation(...)).
NewOperation(kind, pid, path, argv, envp) ==
  [kind |-> kind, pid |-> pid, path |-> path, argv |-> argv, envp |-> envp,
   info |-> <<>>, environAtCall |-> NullVec, heap |-> NoHeap,
   wrapper |-> "", handle |-> NULL, state |-> "created",
   call |-> NoCall, finish |-> NoFinish, res |-> NoResult, member |-> NoMember, error |-> "",
   future |-> PendingFuture, released |-> <<>>, trace |-> <<>>,
   begins |-> 0, ends |-> 0, results |-> 0, settles |-> 0,
   settledBy |-> "", settledOn |-> "", steps |-> <<>>]

NativeCall(fn, op, token) ==
  [NoCall EXCEPT !.fn = fn, !.handle = op.handle, !.token = token]

\* XOperation::Begin: the one native asynchronous call, with this operation
\* as the completion token.
GetFrontmostApplicationBegin(op, token) ==
  NativeCall("frida_device_get_frontmost_application", op, token)

EnumerateApplicationsBegin(op, token) ==
  NativeCall("frida_device_enumerate_applications", op, token)

EnumerateProcessesBegin(op, token) ==
  NativeCall("frida_device_enumerate_processes", op, token)

\* SpawnBegin handing the native call the caller's array and the process
\* environment as they are when Begin runs, not the operation's copies.
SpawnBeginLive(op, token) ==
  LET n == Len(callerArray)
      live == Vec([k \in 1..(n + 1) |->
                     IF k <= n /\ IsString(callerArray[k])
                     THEN CStr(callerArray[k].s) ELSE CNull])
  IN [NativeCall("frida_device_spawn", op, token) EXCEPT
        !.path = live.slots[1], !.argv = live, !.argc = StrvLength(live),
        !.envp = environ, !.envc = StrvLength(environ)]

SpawnBegin(op, token) ==
  [NativeCall("frida_device_spawn", op, token) EXCEPT
     !.path = op.path, !.argv = op.argv, !.argc = StrvLength(op.argv),
     !.envp = op.envp, !.envc = StrvLength(op.envp)]

ResumeBegin(op, token) ==
  [NativeCall("frida_device_resume", op, token) EXCEPT !.pid = op.pid]

\* KillBegin passing the same completion token for every operation.
KillBeginOneToken(op, token) ==
  [NativeCall("frida_device_kill", op, 1) EXCEPT !.pid = op.pid]

KillBegin(op, token) ==
  [NativeCall("frida_device_kill", op, token) EXCEPT !.pid = op.pid]

AttachBegin(op, token) ==
  [NativeCall("frida_device_attach", op, token) EXCEPT !.pid = op.pid]

Begin(op, token) ==
  CASE op.kind = "getFrontmostApplication" -> GetFrontmostApplicationBegin(op, token)
    [] op.kind = "enumerateApplications" -> EnumerateApplicationsBegin(op, token)
    [] op.kind = "enumerateProcesses" -> EnumerateProcessesBegin(op, token)
    [] op.kind = "spawn" -> SpawnBegin(op, token)
    [] op.kind = "resume" -> ResumeBegin(op, token)
    [] op.kind = "kill" -> KillBegin(op, token)
    [] op.kind = "attach" -> AttachBegin(op, token)

\* The finish call fn made on the operation's handle_.
NativeFinish(fn, op) == [fn |-> fn, handle |-> op.handle]

\* XOperation::End: the matching finish call on handle_; it returns the
\* native result and fills the error slot.
GetFrontmostApplicationEnd(op, res) ==
  [op EXCEPT !.finish = NativeFinish("frida_device_get_frontmost_application_finish", op),
             !.member = [NoMember EXCEPT !.obj = res.obj], !.error = res.err]

EnumerateApplicationsEnd(op, res) ==
  [op EXCEPT !.finish = NativeFinish("frida_device_enumerate_applications_finish", op),
             !.member = [NoMember EXCEPT !.obj = res.obj, !.elems = res.elems],
             !.error = res.err]

EnumerateProcessesEnd(op, res) ==
  [op EXCEPT !.finish = NativeFinish("frida_device_enumerate_processes_finish", op),
             !.member = [NoMember EXCEPT !.obj = res.obj, !.elems = res.elems],
             !.error = res.err]

SpawnEnd(op, res) ==
  [op EXCEPT !.finish = NativeFinish("frida_device_spawn_finish", op),
             !.member = [NoMember EXCEPT !.num = res.num], !.error = res.err]

\* ResumeEnd with the finish call made on no handle.
ResumeEndNoHandle(op, res) ==
  [op EXCEPT !.finish = [fn |-> "frida_device_resume_finish", handle |-> NULL],
             !.error = res.err]

\* resume and kill keep no result: End only fills the error slot.
ResumeEnd(op, res) ==
  [op EXCEPT !.finish = NativeFinish("frida_device_resume_finish", op),
             !.error = res.err]

KillEnd(op, res) ==
  [op EXCEPT !.finish = NativeFinish("frida_device_kill_finish", op),
             !.error = res.err]

\* AttachEnd with no error slot handed to the finish call.
AttachEndNoErrorSlot(op, res) ==
  [op EXCEPT !.finish = NativeFinish("frida_device_attach_finish", op),
             !.member = [NoMember EXCEPT !.obj = res.obj]]

AttachEnd(op, res) ==
  [op EXCEPT !.finish = NativeFinish("frida_device_attach_finish", op),
             !.member = [NoMember EXCEPT !.obj = res.obj], !.error = res.err]

End(op, res) ==
  CASE op.kind = "getFrontmostApplication" -> GetFrontmostApplicationEnd(op, res)
    [] op.kind = "enumerateApplications" -> EnumerateApplicationsEnd(op, res)
    [] op.kind = "enumerateProcesses" -> EnumerateProcessesEnd(op, res)
    [] op.kind = "spawn" -> SpawnEnd(op, res)
    [] op.kind = "resume" -> ResumeEnd(op, res)
    [] op.kind = "kill" -> KillEnd(op, res)
    [] op.kind = "attach" -> AttachEnd(op, res)

(***************************************************************************)
(* XOperation::Result: the host value and the native references dropped    *)
(* (g_object_unref) while building it, in order.  trace lists what Result  *)
(* does with native references, statement by statement: "get" (an element  *)
(* taken from the list, which hands out a reference), "wrap" (the          *)
(* secondary wrapper constructed), "store" (the wrapper put into the       *)
(* array) and "unref".                                                     *)
(***************************************************************************)
Ev(e, handle) == [ev |-> e, handle |-> handle]

\* GetFrontmostApplicationResult without the NULL test.
GetFrontmostApplicationResultAlways(op) ==
  [value |-> WrapNative("Application", op.member.obj),
   released |-> <<op.member.obj>>,
   trace |-> <<Ev("wrap", op.member.obj), Ev("unref", op.member.obj)>>]

GetFrontmostApplicationResult(op) ==
  IF op.member.obj # NULL
  THEN [value |-> WrapNative("Application", op.member.obj),
        released |-> <<op.member.obj>>,
        trace |-> <<Ev("wrap", op.member.obj), Ev("unref", op.member.obj)>>]
  ELSE [value |-> Null, released |-> <<>>, trace |-> <<>>]

\* The loop of an enumerate Result: for i = 0 .. size-1, wrap list element
\* i, store it at index i of the array, drop the element's reference.
RECURSIVE EnumerateApplicationsLoop(_, _, _, _)
EnumerateApplicationsLoop(member, size, i, acc) ==
  IF i = size THEN acc
  ELSE LET handle == member.elems[i + 1]
           application == WrapNative("Application", handle)
       IN EnumerateApplicationsLoop(member, size, i + 1,
            [array |-> [acc.array EXCEPT ![i + 1] = application],
             released |-> Append(acc.released, handle),
             trace |-> acc.trace \o <<Ev("get", handle), Ev("wrap", handle),
                                      Ev("store", handle), Ev("unref", handle)>>])

\* EnumerateApplicationsResult without the g_object_unref of the list.
EnumerateApplicationsResultKeepsList(op) ==
  LET size == Len(op.member.elems)
      done == EnumerateApplicationsLoop(op.member, size, 0,
                [array |-> [j \in 1..size |-> Undefined], released |-> <<>>,
                 trace |-> <<>>])
  IN [value |-> Arr(done.array), released |-> done.released,
      trace |-> done.trace]

EnumerateApplicationsResult(op) ==
  LET size == Len(op.member.elems)
      done == EnumerateApplicationsLoop(op.member, size, 0,
                [array |-> [j \in 1..size |-> Undefined], released |-> <<>>,
                 trace |-> <<>>])
  IN [value |-> Arr(done.array),
      released |-> Append(done.released, op.member.obj),
      trace |-> Append(done.trace, Ev("unref", op.member.obj))]

RECURSIVE EnumerateProcessesLoop(_, _, _, _)
EnumerateProcessesLoop(member, size, i, acc) ==
  IF i = size THEN acc
  ELSE LET handle == member.elems[i + 1]
           process == WrapNative("Process", handle)
       IN EnumerateProcessesLoop(member, size, i + 1,
            [array |-> [acc.array EXCEPT ![i + 1] = process],
             released |-> Append(acc.released, handle),
             trace |-> acc.trace \o <<Ev("get", handle), Ev("wrap", handle),
                                      Ev("store", handle), Ev("unref", handle)>>])

\* EnumerateProcessesResult with the loop started at index 1.
EnumerateProcessesResultFromOne(op) ==
  LET size == Len(op.member.elems)
      done == EnumerateProcessesLoop(op.member, size, IF size > 0 THEN 1 ELSE 0,
                [array |-> [j \in 1..size |-> Undefined], released |-> <<>>,
                 trace |-> <<>>])
  IN [value |-> Arr(done.array),
      released |-> Append(done.released, op.member.obj),
      trace |-> Append(done.trace, Ev("unref", op.member.obj))]

EnumerateProcessesResult(op) ==
  LET size == Len(op.member.elems)
      done == EnumerateProcessesLoop(op.member, size, 0,
                [array |-> [j \in 1..size |-> Undefined], released |-> <<>>,
                 trace |-> <<>>])
  IN [value |-> Arr(done.array),
      released |-> Append(done.released, op.member.obj),
      trace |-> Append(done.trace, Ev("unref", op.member.obj))]

SpawnResult(op) ==
  [value |-> Uint32(op.member.num), released |-> <<>>, trace |-> <<>>]

ResumeResult(op) == [value |-> Undefined, released |-> <<>>, trace |-> <<>>]

KillResult(op) == [value |-> Undefined, released |-> <<>>, trace |-> <<>>]

AttachResult(op) ==
  [value |-> WrapNative("Session", op.member.obj),
   released |-> <<op.member.obj>>,
   trace |-> <<Ev("wrap", op.member.obj), Ev("unref", op.member.obj)>>]

Result(op) ==
  CASE op.kind = "getFrontmostApplication" -> GetFrontmostApplicationResult(op)
    [] op.kind = "enumerateApplications" -> EnumerateApplicationsResult(op)
    [] op.kind = "enumerateProcesses" -> EnumerateProcessesResult(op)
    [] op.kind = "spawn" -> SpawnResult(op)
    [] op.kind = "resume" -> ResumeResult(op)
    [] op.kind = "kill" -> KillResult(op)
    [] op.kind = "attach" -> AttachResult(op)

(***************************************************************************)
(* Inputs: what a caller may pass and what the native library may answer.  *)
(***************************************************************************)
SeqsUpTo(S, n) == UNION {[1..k -> S] : k \in 0..n}

PidInfos ==
  {<<>>, <<Str("x")>>, <<NaN>>}
    \cup {<<Num(h)>> : h \in {-2, -1, 0, 1, 2, 3,
                              2 * GuintModulus, 2 * GuintModulus + 2}}

ArgvElements == {Str("a"), Str("b"), Num(2)}

SpawnInfos ==
  {<<>>, <<Str("a")>>} \cup {<<Arr(e)>> : e \in SeqsUpTo(ArgvElements, MaxLen)}

NativeErrors == {"Unable to find process", "Operation timed out"}

\* The native lists the library may return: elements 1..n in either order.
NativeLists(k) ==
  {[i \in 1..n |-> Handle(k, i)] : n \in 0..MaxLen}
    \cup {[i \in 1..n |-> Handle(k, n + 1 - i)] : n \in 2..MaxLen}

Failure(m) == [NoResult EXCEPT !.err = m]

\* What the finish call of each command may yield, E bounding the errors
\* and the list lengths drawn.
NativeOutcomes(kind, E) ==
  {Failure(m) : m \in E.errors} \cup
  CASE kind = "getFrontmostApplication" ->
         {NoResult, [NoResult EXCEPT !.obj = Handle("application", 1)]}
    [] kind = "enumerateApplications" ->
         {[NoResult EXCEPT !.obj = Handle("applications", 0), !.elems = l] :
            l \in {x \in NativeLists("application") : Len(x) \in E.lengths}}
    [] kind = "enumerateProcesses" ->
         {[NoResult EXCEPT !.obj = Handle("processes", 0), !.elems = l] :
            l \in {x \in NativeLists("process") : Len(x) \in E.lengths}}
    [] kind = "spawn" -> {[NoResult EXCEPT !.num = 4]}
    [] kind = "attach" -> {[NoResult EXCEPT !.obj = Handle("session", 1)]}
    [] OTHER -> {NoResult}

(***************************************************************************)
(* Environments: the wrappers, the arguments and the native answers a      *)
(* specification draws from, and the number of operations it creates.      *)
(* ManyOps runs several operations side by side on two wrappers with one   *)
(* valid argument per command; EveryInput runs the operations of one       *)
(* wrapper with every argument and every native answer.                    *)
(***************************************************************************)
ManyOps ==
  [wrappers |-> {"w1", "w2"}, maxOps |-> MaxOps,
   pidInfos |-> {<<Num(2)>>},
   spawnInfos |-> {<<Arr(<<Str("a")>>)>>},
   errors |-> {"Unable to find process"},
   lengths |-> {0, MaxLen}]

EveryInput ==
  [wrappers |-> {"w1"}, maxOps |-> MaxInputOps,
   pidInfos |-> PidInfos,
   spawnInfos |-> SpawnInfos,
   errors |-> NativeErrors,
   lengths |-> 0..MaxLen]

\* The process environment the program starts in, and the environments it
\* may be changed to.
Environ == Vec(<<CStr("PATH=/bin"), CNull>>)

Environs == {Environ, Vec(<<CStr("PATH=/bin"), CStr("LANG=C"), CNull>>)}

\* g_get_environ(): a newly allocated copy of the environment as it is now.
GGetEnviron(env) == Vec(env.slots)

(***************************************************************************)
(* The initial state.                                                      *)
(***************************************************************************)
NoWrapper == [state |-> "none", reachable |-> FALSE, holds |-> 0]
NoCallYet == [cmd |-> "", info |-> <<>>, thrown |-> "", future |-> 0,
              heap |-> NoHeap]

Init ==
  /\ wrappers = [w \in Wrappers |-> NoWrapper]
  /\ refcount = 1
  /\ ownerRef = TRUE
  /\ ops = <<>>
  /\ glibQueue = <<>>
  /\ mailbox = <<>>
  /\ lastCall = NoCallYet
  /\ uaf = FALSE
  /\ environ = Environ
  /\ callerArray = <<>>
  /\ answers = {}

(***************************************************************************)
(* The Device wrapper.                                                     *)
(***************************************************************************)
\* Device::Device without the g_object_ref.
DeviceCtorNoRef(count) == count

\* Device::Device: g_object_ref(handle_).
DeviceCtor(count) == count + 1

\* Device::~Device without the frida_unref.
DeviceDtorNoUnref(count) == count

\* Device::~Device: frida_unref(handle_).
DeviceDtor(count) == IF count > 0 THEN count - 1 ELSE 0

\* Device::New as a construct call with a raw handle the caller owns.
NewDevice(w) ==
  /\ wrappers[w].state = "none"
  /\ ownerRef
  /\ wrappers' = [wrappers EXCEPT ![w] =
                    [state |-> "alive", reachable |-> TRUE, holds |-> 0]]
  /\ refcount' = DeviceCtor(refcount)
  /\ UNCHANGED <<ownerRef, ops, glibQueue, mailbox, lastCall, uaf,
               environ, callerArray, answers>>

\* The handle's creator drops the reference it owned.
ReleaseOwner ==
  /\ ownerRef
  /\ \E w \in Wrappers : wrappers[w].state # "none"
  /\ ownerRef' = FALSE
  /\ refcount' = IF refcount > 0 THEN refcount - 1 ELSE 0
  /\ UNCHANGED <<wrappers, ops, glibQueue, mailbox, lastCall, uaf,
               environ, callerArray, answers>>

\* The host program drops its last reference to the wrapper object.
DropReference(w) ==
  /\ wrappers[w].state = "alive"
  /\ wrappers[w].reachable
  /\ wrappers' = [wrappers EXCEPT ![w].reachable = FALSE]
  /\ UNCHANGED <<refcount, ownerRef, ops, glibQueue, mailbox, lastCall, uaf,
               environ, callerArray, answers>>

\* Garbage collection of a wrapper that is unreachable and unheld: the
\* wrapper is deleted, running ~Device.
Collect(w) ==
  /\ wrappers[w].state = "alive"
  /\ ~wrappers[w].reachable
  /\ wrappers[w].holds = 0
  /\ wrappers' = [wrappers EXCEPT ![w].state = "destroyed"]
  /\ refcount' = DeviceDtor(refcount)
  /\ UNCHANGED <<ownerRef, ops, glibQueue, mailbox, lastCall, uaf,
               environ, callerArray, answers>>

\* A method can be called on a wrapper the host program still references.
CanCall(w) == wrappers[w].state = "alive" /\ wrappers[w].reachable

(***************************************************************************)
(* The operation bridge (Operation<T>: Schedule, OnReady, delivery).       *)
(***************************************************************************)
\* SpawnDtor without the g_free of path_.
SpawnDtorKeepsPath(op) ==
  GStrfreev(op.envp, "envp") \o GStrfreev(op.argv, "argv")

\* SpawnOperation::~SpawnOperation: the buffers it frees, in order.
SpawnDtor(op) ==
  GStrfreev(op.envp, "envp") \o GStrfreev(op.argv, "argv")
    \o GFree(op.path, "path")

\* delete operation: the buffers the destructor of its class frees (the
\* other six operations own none).
Delete(op) == IF op.kind = "spawn" THEN SpawnDtor(op) ELSE <<>>

\* Resolving or rejecting a future: a settled future keeps what it has.
Resolve(op, value, by, on) ==
  [op EXCEPT !.settles = @ + 1, !.steps = Append(@, "Settle"),
             !.future = IF @.state = "pending"
                        THEN [state |-> "fulfilled", value |-> value] ELSE @,
             !.settledBy = IF op.future.state = "pending" THEN by ELSE @,
             !.settledOn = IF op.future.state = "pending" THEN on ELSE @]

Reject(op, error, by, on) ==
  [op EXCEPT !.settles = @ + 1, !.steps = Append(@, "Settle"),
             !.future = IF @.state = "pending"
                        THEN [state |-> "rejected", value |-> error] ELSE @,
             !.settledBy = IF op.future.state = "pending" THEN by ELSE @,
             !.settledOn = IF op.future.state = "pending" THEN on ELSE @]

\* The operation a command call with the arguments info has constructed.
Called(info, op) == [op EXCEPT !.info = info]

\* Operation::Schedule: the operation takes the wrapper's handle and a
\* strong hold on the wrapper, and its Begin is queued for the
\* call-issuance thread.  The future stays pending.
Schedule(op, w) ==
  /\ ops' = Append(ops, [op EXCEPT !.wrapper = w, !.handle = DeviceHandle,
                                   !.state = "started"])
  /\ wrappers' = [wrappers EXCEPT ![w].holds = @ + 1]
  /\ glibQueue' = Append(glibQueue, Len(ops) + 1)

\* The call-issuance thread runs the Begin of the next queued operation.
RunBegin ==
  /\ glibQueue # <<>>
  /\ LET id == Head(glibQueue)
         op == ops[id]
     IN /\ ops' = [ops EXCEPT ![id] =
                     [op EXCEPT !.call = Begin(op, id), !.begins = @ + 1,
                                !.steps = Append(@, "Begin"),
                                !.state = "native-pending"]]
        /\ uaf' = (uaf \/ refcount = 0)
  /\ glibQueue' = Tail(glibQueue)
  /\ UNCHANGED <<wrappers, refcount, ownerRef, mailbox, lastCall,
               environ, callerArray, answers>>

\* OnReady that posts nothing to the event loop.
OnReadyDropped(token, res) ==
  /\ ops' = [ops EXCEPT ![token].res = res, ![token].state = "finishing",
                         ![token].steps = Append(@, "OnReady")]
  /\ mailbox' = mailbox
  /\ UNCHANGED <<wrappers, uaf>>

\* Operation::OnReady, on the native library's thread: the operation named
\* by the completion token is posted to the event loop.
OnReady(token, res) ==
  /\ ops' = [ops EXCEPT ![token].res = res, ![token].state = "finishing",
                         ![token].steps = Append(@, "OnReady")]
  /\ mailbox' = Append(mailbox, token)
  /\ UNCHANGED <<wrappers, uaf>>

\* The native library completes an outstanding call and fires its callback.
Complete(id, E) ==
  /\ ops[id].state = "native-pending"
  /\ \E res \in NativeOutcomes(ops[id].kind, E) :
       /\ OnReady(ops[id].call.token, res)
       /\ answers' = answers \cup {<<id, res>>}
  /\ UNCHANGED <<refcount, ownerRef, glibQueue, lastCall, environ, callerArray>>

\* Deliver that leaves the delivered operation in the mailbox.
DeliverKeepsPosted ==
  /\ mailbox # <<>>
  /\ LET id == Head(mailbox)
         op == ops[id]
         ended == [End(op, op.res) EXCEPT !.ends = @ + 1,
                                          !.steps = Append(@, "End")]
         out == Result(ended)
         done == IF ended.error = ""
                 THEN Resolve([ended EXCEPT !.results = @ + 1,
                                            !.steps = Append(@, "Result"),
                                            !.released = @ \o out.released,
                                            !.trace = @ \o out.trace],
                              out.value, "Deliver", "js")
                 ELSE Reject(ended, HostError(ended.error), "Deliver", "js")
     IN /\ ops' = [ops EXCEPT ![id] = [done EXCEPT !.state = "settled",
                                        !.heap.frees = @ \o Delete(op)]]
        /\ wrappers' = [wrappers EXCEPT ![op.wrapper].holds = @ - 1]
        /\ uaf' = (uaf \/ refcount = 0)
  /\ mailbox' = mailbox
  /\ UNCHANGED <<refcount, ownerRef, glibQueue, lastCall,
               environ, callerArray, answers>>

\* Deliver that builds the result before it runs End.
DeliverResultFirst ==
  /\ mailbox # <<>>
  /\ LET id == Head(mailbox)
         op == ops[id]
         out == Result(op)
         built == [op EXCEPT !.results = @ + 1,
                             !.steps = Append(@, "Result"),
                             !.released = @ \o out.released,
                             !.trace = @ \o out.trace]
         ended == [End(built, op.res) EXCEPT !.ends = @ + 1,
                                             !.steps = Append(@, "End")]
         done == IF ended.error = ""
                 THEN Resolve(ended, out.value, "Deliver", "js")
                 ELSE Reject(ended, HostError(ended.error), "Deliver", "js")
     IN /\ ops' = [ops EXCEPT ![id] = [done EXCEPT !.state = "settled",
                                        !.heap.frees = @ \o Delete(op)]]
        /\ wrappers' = [wrappers EXCEPT ![op.wrapper].holds = @ - 1]
        /\ uaf' = (uaf \/ refcount = 0)
  /\ mailbox' = Tail(mailbox)
  /\ UNCHANGED <<refcount, ownerRef, glibQueue, lastCall,
               environ, callerArray, answers>>

\* An event-loop turn delivers the next posted operation: End, then Result
\* unless End gave an error, then the future is settled; the hold on the
\* wrapper is dropped and the operation is deleted.  (Each intermediate
\* value is bound once, as a run of the handler computes it once.)
Deliver ==
  /\ mailbox # <<>>
  /\ LET id == Head(mailbox)
         op == ops[id]
     IN \E ended \in {[End(op, op.res) EXCEPT !.ends = @ + 1,
                                              !.steps = Append(@, "End")]} :
        \E out \in {Result(ended)} :
        \E done \in {IF ended.error = ""
                      THEN Resolve([ended EXCEPT !.results = @ + 1,
                                                 !.steps = Append(@, "Result"),
                                                 !.released = @ \o out.released,
                                                 !.trace = @ \o out.trace],
                                   out.value, "Deliver", "js")
                      ELSE Reject(ended, HostError(ended.error), "Deliver", "js")} :
          /\ ops' = [ops EXCEPT ![id] = [done EXCEPT !.state = "settled",
                                          !.heap.frees = @ \o Delete(op)]]
          /\ wrappers' = [wrappers EXCEPT ![op.wrapper].holds = @ - 1]
          /\ uaf' = (uaf \/ refcount = 0)
  /\ mailbox' = Tail(mailbox)
  /\ UNCHANGED <<refcount, ownerRef, glibQueue, lastCall,
                 environ, callerArray, answers>>

(***************************************************************************)
(* The command surface.                                                    *)
(***************************************************************************)
\* Nan::ThrowTypeError(message); return.
Throw(cmd, info, message) ==
  /\ lastCall' = [cmd |-> cmd, info |-> info, thrown |-> message, future |-> 0,
                  heap |-> NoHeap]
  /\ UNCHANGED <<wrappers, ops, glibQueue>>

\* Device::Spawn, its throw: heap is what the call allocated and freed
\* before it.
SpawnThrow(info, message, heap) ==
  /\ lastCall' = [cmd |-> "spawn", info |-> info, thrown |-> message,
                  future |-> 0, heap |-> heap]
  /\ UNCHANGED <<wrappers, ops, glibQueue>>

\* info.GetReturnValue().Set(operation->GetPromise(isolate)).
Return(cmd, info) ==
  lastCall' = [cmd |-> cmd, info |-> info, thrown |-> "", future |-> Len(ops'),
               heap |-> NoHeap]

\* g_strdup: a copy of the string, NULL for NULL.
GStrdup(p) == IF p.null THEN CNull ELSE CStr(p.s)

GetFrontmostApplication(w, info, max) ==
  /\ CanCall(w)
  /\ Len(ops) < max
  /\ Schedule(Called(info,
       NewOperation("getFrontmostApplication", 0, CNull, NullVec, NullVec)), w)
  /\ Return("getFrontmostApplication", info)
  /\ UNCHANGED <<refcount, ownerRef, mailbox, uaf, environ, callerArray, answers>>

EnumerateApplications(w, info, max) ==
  /\ CanCall(w)
  /\ Len(ops) < max
  /\ Schedule(Called(info,
       NewOperation("enumerateApplications", 0, CNull, NullVec, NullVec)), w)
  /\ Return("enumerateApplications", info)
  /\ UNCHANGED <<refcount, ownerRef, mailbox, uaf, environ, callerArray, answers>>

\* EnumerateProcesses run to completion inside the call, the future settled
\* before the call returns.
EnumerateProcessesSync(w, info, max) ==
  /\ CanCall(w)
  /\ Len(ops) < max
  /\ \E res \in NativeOutcomes("enumerateProcesses", ManyOps) :
       LET op == [NewOperation("enumerateProcesses", 0, CNull, NullVec, NullVec)
                    EXCEPT !.wrapper = w, !.handle = DeviceHandle, !.res = res,
                           !.begins = 1]
           ended == [End(op, res) EXCEPT !.ends = @ + 1,
                                         !.steps = Append(@, "End")]
           out == Result(ended)
           done == IF ended.error = ""
                   THEN Resolve([ended EXCEPT !.results = @ + 1,
                                              !.steps = Append(@, "Result"),
                                              !.released = @ \o out.released,
                                              !.trace = @ \o out.trace],
                                out.value, "EnumerateProcesses", "js")
                   ELSE Reject(ended, HostError(ended.error),
                               "EnumerateProcesses", "js")
       IN ops' = Append(ops, [done EXCEPT !.state = "settled"])
  /\ Return("enumerateProcesses", info)
  /\ UNCHANGED <<wrappers, glibQueue, refcount, ownerRef, mailbox, uaf,
               environ, callerArray, answers>>

EnumerateProcesses(w, info, max) ==
  /\ CanCall(w)
  /\ Len(ops) < max
  /\ Schedule(Called(info,
       NewOperation("enumerateProcesses", 0, CNull, NullVec, NullVec)), w)
  /\ Return("enumerateProcesses", info)
  /\ UNCHANGED <<refcount, ownerRef, mailbox, uaf, environ, callerArray, answers>>

Spawn(w, info, max) ==
  /\ CanCall(w)
  /\ LET argv == SpawnArgv(info)
         built == SpawnArgvHeap(info)
     IN IF argv.null
        THEN SpawnThrow(info, BadArgvMessage, built)
        ELSE LET envp == GGetEnviron(environ)
                 path == GStrdup(argv.slots[1])
                 heap == [built EXCEPT !.allocs =
                            @ \cup StrvBuffers(envp, "envp")
                              \cup (IF path.null THEN {} ELSE {Buf("path", 0)})]
                 operation == [NewOperation("spawn", 0, path, argv, envp)
                                 EXCEPT !.heap = heap, !.environAtCall = environ]
             IN /\ Len(ops) < max
                /\ Schedule(Called(info, operation), w)
                /\ Return("spawn", info)
  /\ callerArray' = IF Len(info) >= 1 /\ IsArray(info[1])
                    THEN info[1].e ELSE callerArray
  /\ UNCHANGED <<refcount, ownerRef, mailbox, uaf, environ, answers>>

Resume(w, info, max) ==
  /\ CanCall(w)
  /\ IF ResumeCheck(info) = "throw"
     THEN Throw("resume", info, BadPidMessage)
     ELSE LET pid == ToInteger(info[1])
          IN /\ Len(ops) < max
             /\ Schedule(Called(info,
                  NewOperation("resume", CastGuint(pid), CNull, NullVec, NullVec)), w)
             /\ Return("resume", info)
  /\ UNCHANGED <<refcount, ownerRef, mailbox, uaf, environ, callerArray, answers>>

Kill(w, info, max) ==
  /\ CanCall(w)
  /\ IF KillCheck(info) = "throw"
     THEN Throw("kill", info, BadPidMessage)
     ELSE LET pid == ToInteger(info[1])
          IN /\ Len(ops) < max
             /\ Schedule(Called(info,
                  NewOperation("kill", CastGuint(pid), CNull, NullVec, NullVec)), w)
             /\ Return("kill", info)
  /\ UNCHANGED <<refcount, ownerRef, mailbox, uaf, environ, callerArray, answers>>

Attach(w, info, max) ==
  /\ CanCall(w)
  /\ IF AttachCheck(info) = "throw"
     THEN Throw("attach", info, BadPidMessage)
     ELSE LET pid == ToInteger(info[1])
          IN /\ Len(ops) < max
             /\ Schedule(Called(info,
                  NewOperation("attach", CastGuint(pid), CNull, NullVec, NullVec)), w)
             /\ Return("attach", info)
  /\ UNCHANGED <<refcount, ownerRef, mailbox, uaf, environ, callerArray, answers>>

\* The process environment is changed (setenv / unsetenv by the host
\* program).
Setenv(env) ==
  /\ env # environ
  /\ environ' = env
  /\ UNCHANGED <<wrappers, refcount, ownerRef, ops, glibQueue, mailbox,
                 lastCall, uaf, callerArray, answers>>

\* The caller of spawn changes the array it passed: it overwrites the first
\* element or empties the array.
MutateArray ==
  /\ Len(callerArray) > 0
  /\ callerArray' \in {<<>>, [callerArray EXCEPT ![1] = Str("z")]}
  /\ callerArray' # callerArray
  /\ UNCHANGED <<wrappers, refcount, ownerRef, ops, glibQueue, mailbox,
                 lastCall, uaf, environ, answers>>

\* What the host program does besides calling commands.
Caller ==
  \/ \E env \in Environs : Setenv(env)
  \/ MutateArray

\* The wrapper's life: construction, the creator's release, the host
\* program's last reference dropped, collection.
Lifecycle(E) ==
  \/ \E w \in E.wrappers : NewDevice(w)
  \/ ReleaseOwner
  \/ \E w \in E.wrappers : DropReference(w)
  \/ \E w \in E.wrappers : Collect(w)

Commands(E) ==
  \/ \E w \in E.wrappers : GetFrontmostApplication(w, <<>>, E.maxOps)
  \/ \E w \in E.wrappers : EnumerateApplications(w, <<>>, E.maxOps)
  \/ \E w \in E.wrappers : EnumerateProcesses(w, <<>>, E.maxOps)
  \/ \E w \in E.wrappers, info \in E.spawnInfos : Spawn(w, info, E.maxOps)
  \/ \E w \in E.wrappers, info \in E.pidInfos : Resume(w, info, E.maxOps)
  \/ \E w \in E.wrappers, info \in E.pidInfos : Kill(w, info, E.maxOps)
  \/ \E w \in E.wrappers, info \in E.pidInfos : Attach(w, info, E.maxOps)

Bridge(E) ==
  \/ RunBegin
  \/ \E id \in 1..Len(ops) : Complete(id, E)
  \/ Deliver

Next == Lifecycle(ManyOps) \/ Commands(ManyOps) \/ Bridge(ManyOps)

\* Several operations side by side, over the wrappers' whole life.
Spec == Init /\ [][Next]_vars

\* A Device wrapper constructed around the handle and held by the host
\* program.
InitInput ==
  /\ wrappers = [w \in Wrappers |->
                   IF w \in EveryInput.wrappers
                   THEN [state |-> "alive", reachable |-> TRUE, holds |-> 0]
                   ELSE NoWrapper]
  /\ refcount = DeviceCtor(1)
  /\ ownerRef = TRUE
  /\ ops = <<>>
  /\ glibQueue = <<>>
  /\ mailbox = <<>>
  /\ lastCall = NoCallYet
  /\ uaf = FALSE
  /\ environ = Environ
  /\ callerArray = <<>>
  /\ answers = {}

NextInput == Commands(EveryInput) \/ Bridge(EveryInput) \/ Caller

\* The commands of a wrapper the host program holds, over every argument
\* and native answer.
InputSpec == InitInput /\ [][NextInput]_vars

(***************************************************************************)
(* Properties.                                                             *)
(***************************************************************************)
OpIds == 1..Len(ops)

Settled(f) == f.state \in {"fulfilled", "rejected"}

\* A step that is a command call: the caller is handed a result or a new
\* operation appears.
CallStep == lastCall' # lastCall \/ Len(ops') # Len(ops)

\* C1: every operation's future goes from pending to exactly one of
\* fulfilled or rejected, at most once (one resolve-or-reject in all, and a
\* future is settled exactly when that one has run), and once settled
\* neither its state nor its value changes in any later step.
C1_FutureSettlesOnce ==
  /\ [](\A i \in OpIds :
          /\ ops[i].future.state \in {"pending", "fulfilled", "rejected"}
          /\ ops[i].settles <= 1
          /\ Settled(ops[i].future) <=> ops[i].settles = 1)
  /\ [][\A i \in OpIds :
          Settled(ops[i].future) => ops'[i].future = ops[i].future]_vars

\* Two operations of one wrapper completed in the opposite order of their
\* scheduling, one rejected and one fulfilled.
C1_Witness ==
  /\ Len(ops) = 2
  /\ ops[1].wrapper = ops[2].wrapper
  /\ ops[2].future.state = "rejected"
  /\ ops[1].future.state = "fulfilled"
  /\ mailbox = <<>>
  /\ ops[1].kind = "getFrontmostApplication"

\* C2: a command call that passes validation hands its caller a future that
\* is pending when the call returns and settles no future itself; a future
\* is settled only by the delivery step of the event-loop thread, in a step
\* that is no command call and not the completion callback's.
C2_SettledLaterOnEventLoop ==
  /\ [](\A i \in OpIds :
          Settled(ops[i].future) =>
            ops[i].settledBy = "Deliver" /\ ops[i].settledOn = "js")
  /\ [][/\ (CallStep /\ lastCall'.thrown = "") =>
             /\ lastCall'.future = Len(ops')
             /\ Len(ops') = Len(ops) + 1
             /\ ops'[Len(ops')].future = PendingFuture
             /\ ops'[Len(ops')].state = "started"
        /\ \A i \in 1..Len(ops') :
             (Settled(ops'[i].future) /\ (i > Len(ops) \/ ~Settled(ops[i].future)))
               => (~CallStep /\ ops[i].state = "finishing" /\ mailbox # <<>>
                   /\ Head(mailbox) = i)]_vars

\* The completion callback of the operation just scheduled has fired while
\* an earlier operation is still with the native library; its future is
\* still pending, awaiting the event loop.
C2_Witness ==
  /\ Len(ops) = 2
  /\ lastCall.future = 2
  /\ ops[2].state = "finishing"
  /\ ops[2].future = PendingFuture
  /\ ops[1].state = "native-pending"
  /\ ops[2].kind = "enumerateProcesses"

\* The scheduling the bridge guarantees: the call-issuance thread runs every
\* queued Begin, the native library completes every call it was given, and
\* the event loop drains its mailbox.
FairSpec ==
  /\ Spec
  /\ WF_vars(RunBegin)
  /\ \A id \in 1..MaxOps : WF_vars(id \in OpIds /\ Complete(id, ManyOps))
  /\ WF_vars(Deliver)

\* C3: under that scheduling every scheduled operation reaches the settled
\* state, whatever else is in flight on its wrapper.
C3_EveryOperationSettles ==
  \A i \in 1..MaxOps :
    [](i \in OpIds => <>(i \in OpIds /\ ops[i].state = "settled"
                         /\ Settled(ops[i].future)))

\* Two operations in flight on one wrapper, the later one settled while the
\* earlier one still waits for its native completion.
C3_Witness ==
  /\ Len(ops) = 2
  /\ ops[1].wrapper = ops[2].wrapper
  /\ ops[1].state = "native-pending"
  /\ ops[2].state = "settled"
  /\ Settled(ops[2].future)

\* C4: when the native finish call yields an error, the operation's future
\* is rejected with a host error carrying that very message, Result is
\* never run for the operation, and nothing is wrapped or released (the
\* future's value is the error, not a wrapper).
C4_NativeErrorRejects ==
  \A i \in OpIds :
    ops[i].res.err # "" =>
      /\ ops[i].results = 0
      /\ ops[i].released = <<>>
      /\ ops[i].state = "settled" =>
           ops[i].future = [state |-> "rejected",
                            value |-> HostError(ops[i].res.err)]
      /\ ops[i].state # "settled" => ops[i].future = PendingFuture

\* An attach whose native call failed, delivered.
C4_Witness ==
  \E i \in OpIds :
    /\ ops[i].kind = "attach"
    /\ ops[i].state = "settled"
    /\ ops[i].res.err = "Operation timed out"
    /\ ops[i].future.state = "rejected"

PidCommands == {"resume", "kill", "attach"}

\* The arguments the pid commands are to refuse: none, no number, or a
\* number whose integer value is not positive.
BadPidInfo(info) ==
  \/ Len(info) = 0
  \/ info[1].t # "number"
  \/ ToInteger(info[1]) <= 0

\* C5: resume, kill and attach called with such an argument throw "Bad
\* argument, expected pid" to the caller; the call hands out no future,
\* creates no operation and queues no native begin call.
C5_BadPidThrows ==
  [][(CallStep /\ lastCall'.cmd \in PidCommands /\ BadPidInfo(lastCall'.info))
       => /\ lastCall'.thrown = BadPidMessage
          /\ lastCall'.future = 0
          /\ ops' = ops
          /\ glibQueue' = glibQueue
          /\ mailbox' = mailbox]_vars

\* resume(0.5) thrown at the caller while an earlier operation is in flight.
C5_Witness ==
  /\ lastCall.cmd = "resume"
  /\ lastCall.info = <<Num(1)>>
  /\ lastCall.thrown = BadPidMessage
  /\ lastCall.future = 0
  /\ Len(ops) = 1
  /\ ops[1].state = "native-pending"

\* C6: spawn called with an empty array throws the argv validation message
\* to the caller: no operation is created, no native call is queued and no
\* future is handed out.
C6_EmptyArgvThrows ==
  [][(CallStep /\ lastCall'.cmd = "spawn" /\ lastCall'.info = <<Arr(<<>>)>>)
       => /\ lastCall'.thrown = BadArgvMessage
          /\ lastCall'.future = 0
          /\ ops' = ops
          /\ glibQueue' = glibQueue]_vars

\* The arguments spawn is to refuse besides the empty array: none, no
\* array, or an array holding a non-string at some index.
BadArgvInfo(info) ==
  \/ Len(info) = 0
  \/ info[1].t # "array"
  \/ \E k \in 1..Len(info[1].e) : info[1].e[k].t # "string"

\* C7: spawn called with such an argument throws "Bad argument, expected
\* argv as an array of strings" to the caller; the call hands out no
\* future, creates no operation and queues no native spawn call.
C7_BadArgvThrows ==
  [][(CallStep /\ lastCall'.cmd = "spawn" /\ BadArgvInfo(lastCall'.info))
       => /\ lastCall'.thrown = BadArgvMessage
          /\ lastCall'.future = 0
          /\ ops' = ops
          /\ glibQueue' = glibQueue
          /\ mailbox' = mailbox]_vars

\* spawn(["a", 1]) thrown at the caller: the non-string is not the first
\* element.
C7_Witness ==
  /\ lastCall.cmd = "spawn"
  /\ lastCall.info = <<Arr(<<Str("a"), Num(2)>>)>>
  /\ lastCall.thrown = BadArgvMessage
  /\ lastCall.future = 0
  /\ ops = <<>>

EnumerateKinds == {"enumerateApplications", "enumerateProcesses"}

ElementWrapper(kind) ==
  IF kind = "enumerateApplications" THEN "Application" ELSE "Process"

\* C8: an enumerate operation whose native call succeeded fulfils its
\* future with an array as long as the native list, holding at every index
\* the wrapper of the native list's element at that index.
C8_EnumerateKeepsOrder ==
  \A i \in OpIds :
    (ops[i].kind \in EnumerateKinds /\ ops[i].state = "settled"
       /\ ops[i].res.err = "") =>
      /\ ops[i].future.state = "fulfilled"
      /\ ops[i].future.value.t = "array"
      /\ Len(ops[i].future.value.e) = Len(ops[i].res.elems)
      /\ \A k \in 1..Len(ops[i].res.elems) :
           ops[i].future.value.e[k] =
             WrapNative(ElementWrapper(ops[i].kind), ops[i].res.elems[k])

\* enumerateProcesses delivered for a native list of MaxLen elements in
\* descending order.
C8_Witness ==
  \E i \in OpIds :
    /\ ops[i].kind = "enumerateProcesses"
    /\ ops[i].state = "settled"
    /\ Len(ops[i].res.elems) = MaxLen
    /\ ops[i].res.elems[1] = Handle("process", MaxLen)
    /\ ops[i].future.state = "fulfilled"

\* C9: getFrontmostApplication whose native call gave no error fulfils its
\* future with null, releasing nothing, when the call returned no
\* application, and with the Application wrapper of the returned record
\* otherwise.
C9_FrontmostNullOrWrapper ==
  \A i \in OpIds :
    (ops[i].kind = "getFrontmostApplication" /\ ops[i].state = "settled"
       /\ ops[i].res.err = "") =>
      IF ops[i].res.obj = NULL
      THEN /\ ops[i].future = [state |-> "fulfilled", value |-> Null]
           /\ ops[i].released = <<>>
      ELSE ops[i].future = [state |-> "fulfilled",
                            value |-> WrapNative("Application", ops[i].res.obj)]

\* getFrontmostApplication delivered when there was no frontmost
\* application.
C9_Witness ==
  \E i \in OpIds :
    /\ ops[i].kind = "getFrontmostApplication"
    /\ ops[i].state = "settled"
    /\ ops[i].res = NoResult
    /\ ops[i].future.value = Null

\* C10: while an operation has not settled, the wrapper it was scheduled on
\* is alive and the device handle's reference count is above zero; and no
\* begin or finish call has used the handle at reference count zero.
C10_WrapperOutlivesOperation ==
  /\ \A i \in OpIds :
       ops[i].state # "settled" =>
         /\ wrappers[ops[i].wrapper].state = "alive"
         /\ refcount > 0
  /\ ~uaf

\* An operation in flight on a wrapper the host program no longer
\* references, after the handle's creator dropped its reference and a
\* collection destroyed the other wrapper.
C10_Witness ==
  \E i \in OpIds :
    /\ ops[i].state = "finishing"
    /\ ~wrappers[ops[i].wrapper].reachable
    /\ ~ownerRef
    /\ \E w \in Wrappers : wrappers[w].state = "destroyed"
    /\ refcount = 1

\* The steps of an operation whose native call gave the answer res, in the
\* order they are to run.
FullSteps(res) ==
  IF res.err = ""
  THEN <<"Begin", "OnReady", "End", "Result", "Settle">>
  ELSE <<"Begin", "OnReady", "End", "Settle">>

IsPrefix(s, t) == Len(s) <= Len(t) /\ \A k \in 1..Len(s) : s[k] = t[k]

\* The steps an operation has been through when it rests in a state.
StepsAt(op) ==
  CASE op.state = "started" -> <<>>
    [] op.state = "native-pending" -> <<"Begin">>
    [] op.state = "finishing" -> <<"Begin", "OnReady">>
    [] op.state = "settled" -> FullSteps(op.res)

\* C11: the steps of every operation run in the order Begin, completion
\* callback, End, Result (only when End gave no error), settlement: what an
\* operation has been through is always an initial part of that order and
\* only ever grows at its end, so no step runs before its predecessor; and
\* a future is settled only after the completion callback and End of its
\* own operation.
C11_StepsInOrder ==
  /\ [](\A i \in OpIds :
          /\ ops[i].steps = StepsAt(ops[i])
          /\ IsPrefix(ops[i].steps, FullSteps(ops[i].res))
          /\ Settled(ops[i].future) =>
               /\ ops[i].steps = FullSteps(ops[i].res)
               /\ ops[i].steps[2] = "OnReady"
          /\ ops[i].results = 1 => ops[i].ends = 1
          /\ ops[i].ends = 1 => ops[i].begins = 1)
  /\ [][\A i \in OpIds : IsPrefix(ops[i].steps, ops'[i].steps)]_vars

\* enumerateApplications through all five steps for a list of MaxLen
\* elements, while a later operation has failed through its four.
C11_Witness ==
  /\ Len(ops) = 2
  /\ ops[1].kind = "enumerateApplications"
  /\ Len(ops[1].res.elems) = MaxLen
  /\ ops[1].steps = <<"Begin", "OnReady", "End", "Result", "Settle">>
  /\ ops[2].steps = <<"Begin", "OnReady", "End", "Settle">>

\* The native begin entry point of each command and its matching finish.
BeginOf(kind) ==
  CASE kind = "getFrontmostApplication" -> "frida_device_get_frontmost_application"
    [] kind = "enumerateApplications" -> "frida_device_enumerate_applications"
    [] kind = "enumerateProcesses" -> "frida_device_enumerate_processes"
    [] kind = "spawn" -> "frida_device_spawn"
    [] kind = "resume" -> "frida_device_resume"
    [] kind = "kill" -> "frida_device_kill"
    [] kind = "attach" -> "frida_device_attach"

FinishOf(kind) ==
  CASE kind = "getFrontmostApplication" -> "frida_device_get_frontmost_application_finish"
    [] kind = "enumerateApplications" -> "frida_device_enumerate_applications_finish"
    [] kind = "enumerateProcesses" -> "frida_device_enumerate_processes_finish"
    [] kind = "spawn" -> "frida_device_spawn_finish"
    [] kind = "resume" -> "frida_device_resume_finish"
    [] kind = "kill" -> "frida_device_kill_finish"
    [] kind = "attach" -> "frida_device_attach_finish"

Occurrences(q, x) == Cardinality({k \in 1..Len(q) : q[k] = x})

\* C12: a scheduled operation makes its native begin call once and no more
\* (never while it waits in the call-issuance queue, where it sits exactly
\* once, and exactly once from then on: nothing takes a scheduled operation
\* past its Begin), and its finish call at most once, only after the begin
\* call, by the matching entry point and on the very device handle the
\* begin call was made on.
C12_BeginOnceFinishOnce ==
  \A i \in OpIds :
    /\ ops[i].begins <= 1
    /\ ops[i].ends <= 1
    /\ ops[i].state = "started" =>
         ops[i].begins = 0 /\ Occurrences(glibQueue, i) = 1
    /\ ops[i].state # "started" =>
         /\ ops[i].begins = 1
         /\ Occurrences(glibQueue, i) = 0
         /\ ops[i].call.fn = BeginOf(ops[i].kind)
         /\ ops[i].call.handle = DeviceHandle
    /\ ops[i].ends = 0 => ops[i].finish = NoFinish
    /\ ops[i].ends = 1 =>
         /\ ops[i].begins = 1
         /\ ops[i].finish.fn = FinishOf(ops[i].kind)
         /\ ops[i].finish.handle = ops[i].call.handle
    /\ ops[i].state = "settled" => ops[i].ends = 1

\* A resume begun and finished once while a later operation still waits for
\* its Begin.
C12_Witness ==
  /\ Len(ops) = 2
  /\ ops[1].kind = "resume"
  /\ ops[1].begins = 1
  /\ ops[1].ends = 1
  /\ ops[1].finish.handle = DeviceHandle
  /\ ops[2].state = "started"
  /\ glibQueue = <<2>>

\* The native references the answer res hands to the operation: the record
\* or list the finish call returned, and one per element taken from a list.
Received(res, h) ==
  (IF res.obj = h THEN 1 ELSE 0)
    + Cardinality({k \in 1..Len(res.elems) : res.elems[k] = h})

Count(trace, e) == Cardinality({p \in 1..Len(trace) : trace[p] = e})

TraceHandles(trace) == {trace[p].handle : p \in 1..Len(trace)}

Unrefs(trace) == SelectSeq(trace, LAMBDA e : e.ev = "unref")

\* C13: an operation that settled without error has released every native
\* reference it received exactly once (as many unrefs of a record as
\* references received, none of NULL, none of anything else), so it holds
\* none afterwards; an element is released only after it was taken from
\* the list, wrapped and stored, the list only as the last thing, after
\* every element was stored, a single record only after it was wrapped.  An
\* operation that has not settled, or settled with an error, has released
\* nothing.
C13_ResultReleasedOnce ==
  \A i \in OpIds :
    LET op == ops[i]
        trace == op.trace
    IN /\ (op.state # "settled" \/ op.res.err # "") =>
            trace = <<>> /\ op.released = <<>>
       /\ (op.state = "settled" /\ op.res.err = "") =>
            /\ NULL \notin TraceHandles(trace)
            /\ \A h \in TraceHandles(trace) \cup {op.res.obj} \cup
                         {op.res.elems[k] : k \in 1..Len(op.res.elems)} :
                 h # NULL => Count(trace, Ev("unref", h)) = Received(op.res, h)
            /\ op.released = [p \in 1..Len(Unrefs(trace)) |-> Unrefs(trace)[p].handle]
            /\ \A p \in 1..Len(trace) :
                 trace[p].ev = "unref" =>
                   IF op.kind \in EnumerateKinds /\ trace[p].handle = op.res.obj
                   THEN /\ p = Len(trace)
                        /\ Cardinality({q \in 1..(p - 1) : trace[q].ev = "store"})
                             = Len(op.res.elems)
                   ELSE /\ \E q \in 1..(p - 1) :
                             trace[q] = Ev("wrap", trace[p].handle)
                        /\ op.kind \in EnumerateKinds =>
                             /\ p >= 4
                             /\ trace[p - 3] = Ev("get", trace[p].handle)
                             /\ trace[p - 2] = Ev("wrap", trace[p].handle)
                             /\ trace[p - 1] = Ev("store", trace[p].handle)

\* enumerateApplications settled for a native list of MaxLen elements in
\* descending order: every element and then the list released.
C13_Witness ==
  \E i \in OpIds :
    /\ ops[i].kind = "enumerateApplications"
    /\ ops[i].state = "settled"
    /\ Len(ops[i].res.elems) = MaxLen
    /\ ops[i].res.elems[1] = Handle("application", MaxLen)
    /\ Len(ops[i].released) = MaxLen + 1
    /\ ops[i].released[MaxLen + 1] = Handle("applications", 0)

LiveWrappers == {w \in Wrappers : wrappers[w].state = "alive"}

\* The references on the device handle that are the wrappers': all but the
\* one its creator still owns.
WrapperRefs == refcount - (IF ownerRef THEN 1 ELSE 0)

\* C14: the references the wrappers hold on the device handle are always as
\* many as there are live wrappers of it; a step that constructs a wrapper
\* adds exactly one, a step that destroys one drops exactly one, and no
\* other step changes them, so a live wrapper's reference is never dropped
\* before its destruction.
C14_WrapperRefAccounting ==
  /\ [](WrapperRefs = Cardinality(LiveWrappers))
  /\ [][/\ \A w \in Wrappers :
             /\ (wrappers[w].state = "none" /\ wrappers'[w].state = "alive")
                  => WrapperRefs' = WrapperRefs + 1
             /\ (wrappers[w].state = "alive" /\ wrappers'[w].state = "destroyed")
                  => WrapperRefs' = WrapperRefs - 1
             /\ wrappers[w].state = "destroyed" => wrappers'[w].state = "destroyed"
        /\ (\A w \in Wrappers : wrappers'[w].state = wrappers[w].state)
             => WrapperRefs' = WrapperRefs]_vars

\* Both wrappers of the handle constructed and destroyed again, one of them
\* after an operation on it settled, while the handle's creator keeps its
\* reference: the handle is back at one reference.
C14_Witness ==
  /\ \A w \in Wrappers : wrappers[w].state = "destroyed"
  /\ ownerRef
  /\ refcount = 1
  /\ Len(ops) = 1
  /\ ops[1].state = "settled"

\* C15: for resume, kill and attach, once the native begin call of an
\* operation has been issued, the pid it was handed is positive and is the
\* integer value of the argument the caller gave.
C15_PidPreserved ==
  \A i \in OpIds :
    (ops[i].kind \in PidCommands /\ ops[i].begins = 1) =>
      /\ ops[i].call.pid > 0
      /\ ops[i].call.pid = ToInteger(ops[i].info[1])

\* The index of the first element of e that is no string, Len(e) + 1 when
\* all are strings.
FirstNonString(e) ==
  CHOOSE k \in 1..(Len(e) + 1) :
    /\ k = Len(e) + 1 \/ e[k].t # "string"
    /\ \A j \in 1..(k - 1) : e[j].t = "string"

\* Every buffer the log says was allocated was freed once, and nothing else
\* was freed.
FreedOnce(heap) ==
  /\ \A b \in heap.allocs : Count(heap.frees, b) = 1
  /\ \A p \in 1..Len(heap.frees) : heap.frees[p] \in heap.allocs

\* The buffers of a string vector of n strings.
VectorOf(name, n) == {Buf(name, k) : k \in 0..n}

\* C16: a spawn call that throws has, when it throws, freed once each what
\* it allocated: nothing when its argument is no array, else the argv array
\* and the strings copied for the elements before the first non-string,
\* with no environment or path copy made.  A spawn operation owns its argv
\* array and one copy per string, the environment snapshot and (when argv
\* has a first string) the path copy; it frees none of them while it is in
\* flight and each exactly once when it is destroyed on settling, after a
\* native success as after a native error.  No other call or operation
\* allocates or frees a buffer.
C16_SpawnBuffersFreedOnce ==
  /\ lastCall.thrown # "" =>
       /\ FreedOnce(lastCall.heap)
       /\ lastCall.heap.allocs =
            IF lastCall.cmd = "spawn" /\ Len(lastCall.info) >= 1
                 /\ lastCall.info[1].t = "array"
            THEN VectorOf("argv", FirstNonString(lastCall.info[1].e) - 1)
            ELSE {}
  /\ lastCall.thrown = "" => lastCall.heap = NoHeap
  /\ \A i \in OpIds :
       LET op == ops[i]
       IN /\ op.kind # "spawn" => op.heap = NoHeap
          /\ op.kind = "spawn" =>
               /\ op.heap.allocs =
                    VectorOf("argv", Len(op.info[1].e))
                      \cup VectorOf("envp", StrvLength(op.environAtCall))
                      \cup (IF Len(op.info[1].e) > 0 THEN {Buf("path", 0)} ELSE {})
               /\ op.state # "settled" => op.heap.frees = <<>>
               /\ op.state = "settled" => FreedOnce(op.heap)

\* spawn(["a", "b"]) destroyed after its native call failed, and then
\* spawn(["a", 1]) thrown at the caller: one string was copied and freed
\* again, then the array.
C16_Witness ==
  /\ \E i \in OpIds :
       /\ ops[i].kind = "spawn"
       /\ ops[i].info = <<Arr(<<Str("a"), Str("b")>>)>>
       /\ ops[i].state = "settled"
       /\ ops[i].res.err # ""
       /\ Len(ops[i].heap.frees) = 6
  /\ lastCall.cmd = "spawn"
  /\ lastCall.thrown = BadArgvMessage
  /\ lastCall.heap.frees = <<Buf("argv", 1), Buf("argv", 0)>>

\* The C strings of a host array of strings, in order.
Strings(e) == [k \in 1..Len(e) |-> CStr(e[k].s)]

\* C17: once the native begin call of a spawn operation has been issued, it
\* was handed as argv the strings of the array the caller passed, as many
\* and in the same order, as path the first of them in a buffer of its own
\* (no path when the array was empty), and as environment the process
\* environment as it was when spawn was called, whatever the caller has
\* done to its array and whatever the process environment has become
\* since; and no step changes an operation's captured arguments or the
\* arguments of a call already issued.
C17_SpawnPassesCopies ==
  /\ [](\A i \in OpIds :
          (ops[i].kind = "spawn" /\ ops[i].begins = 1) =>
            LET given == ops[i].info[1].e
                call == ops[i].call
            IN /\ call.argc = Len(given)
               /\ SubSeq(call.argv.slots, 1, call.argc) = Strings(given)
               /\ call.argv.slots[call.argc + 1] = CNull
               /\ call.path = IF Len(given) > 0 THEN Strings(given)[1] ELSE CNull
               /\ Len(given) > 0 =>
                    {Buf("path", 0), Buf("argv", 1)} \subseteq ops[i].heap.allocs
               /\ call.envp = ops[i].environAtCall
               /\ call.envc = StrvLength(ops[i].environAtCall))
  /\ [][\A i \in OpIds :
          /\ ops'[i].path = ops[i].path
          /\ ops'[i].argv = ops[i].argv
          /\ ops'[i].envp = ops[i].envp
          /\ ops[i].begins = 1 => ops'[i].call = ops[i].call]_vars

\* spawn(["a", "b"]) begun after its caller emptied the array and the
\* process environment was changed.
C17_Witness ==
  \E i \in OpIds :
    /\ ops[i].kind = "spawn"
    /\ ops[i].begins = 1
    /\ ops[i].info = <<Arr(<<Str("a"), Str("b")>>)>>
    /\ ops[i].state = "native-pending"
    /\ callerArray = <<>>
    /\ environ # ops[i].environAtCall
    /\ ops[i].call.envp = Environ

\* The answers the native library gave to the call begun by operation i.
AnswersOf(i) == {a \in answers : a[1] = i}

\* The settled future that the answer res to an operation's own native call
\* makes: rejected with its error, or fulfilled with the value built from
\* its result.
OutcomeOf(op, res) ==
  IF res.err # ""
  THEN [state |-> "rejected", value |-> HostError(res.err)]
  ELSE [state |-> "fulfilled", value |-> Result(End(op, res)).value]

\* C18: with several operations in flight, on one wrapper or two, and their
\* native calls completing in any order, the completion token of every
\* begin call names the operation that made it; an operation is past its
\* completion callback exactly when its own call was answered (once), what
\* it then carries is that answer, and its future is settled with the
\* outcome of that answer and of no other operation's.
C18_OwnOutcome ==
  /\ \A a \in answers : a[1] \in OpIds
  /\ \A i \in OpIds :
       /\ ops[i].begins = 1 => ops[i].call.token = i
       /\ Cardinality(AnswersOf(i)) <= 1
       /\ ops[i].state \in {"finishing", "settled"} <=> AnswersOf(i) # {}
       /\ AnswersOf(i) = {} => ops[i].future = PendingFuture
       /\ \A a \in AnswersOf(i) :
            /\ ops[i].res = a[2]
            /\ ops[i].state = "finishing" => ops[i].future = PendingFuture
            /\ ops[i].state = "settled" => ops[i].future = OutcomeOf(ops[i], a[2])

\* Two kills in flight on one wrapper: the later one's call failed first and
\* its future is rejected, the earlier one's call then succeeded and waits
\* for delivery.
C18_Witness ==
  /\ Len(ops) = 2
  /\ ops[1].kind = "kill"
  /\ ops[2].kind = "kill"
  /\ ops[1].wrapper = ops[2].wrapper
  /\ ops[2].future.state = "rejected"
  /\ ops[1].state = "finishing"
  /\ ops[1].res = NoResult
  /\ mailbox = <<1>>

====
